---------------------------- MODULE Spec2Model ----------------------------
(***************************************************************************)
(* Model of src/app.py: the four candlestick detectors (detect_doji,      *)
(* detect_hammer, detect_shooting_star, detect_bullish_engulfing) and the  *)
(* "Load & Analyze Chart" button handler that calls them on the columns    *)
(* of the downloaded DataFrame.                                            *)
(*                                                                         *)
(* Prices are modelled as integers (price ticks); the float factors 0.1    *)
(* and 0.3 are kept as exact ratios TolNum/TolDen and BodyNum/BodyDen.     *)
(* A pandas Series is a sequence; a DataFrame is a function from column    *)
(* names to Series.  A Python call either returns a value or raises:       *)
(* results are records [exc |-> "none", val |-> v] or [exc |-> e].         *)
(***************************************************************************)
EXTENDS Integers, Sequences, FiniteSets, TLC

VARIABLES pc, fetched, data, ui, exc, out

vars == <<pc, fetched, data, ui, exc, out>>

-----------------------------------------------------------------------------
(* Bounds of the model *)

MaxPrice == 4
MaxLen == 3
PatLen == 2
MaxBars == 51

(* Program constants *)

MinBars == 50
TolNum == 1
TolDen == 10
BodyNum == 3
BodyDen == 10
DojiMul == 100
HammerMul == 100
ShootingStarMul == 0 - 100
EngulfingMul == 100

(* The missing value Series.shift(1) puts at position 0 *)
NaN == 0 - 1000

-----------------------------------------------------------------------------
(* Python call results *)

Ok(v) == [exc |-> "none", val |-> v]
Raise(e) == [exc |-> e]

(* Element arithmetic and comparison of float64 values; every comparison   *)
(* with NaN is False                                                       *)
Abs(x) == IF x = NaN THEN NaN ELSE IF x < 0 THEN 0 - x ELSE x
Sub(x, y) == IF x = NaN \/ y = NaN THEN NaN ELSE x - y
Lt(x, y) == IF x = NaN \/ y = NaN THEN FALSE ELSE x < y
Gt(x, y) == IF x = NaN \/ y = NaN THEN FALSE ELSE x > y
(* x <= (num/den) * y *)
LeFrac(x, num, den, y) == IF x = NaN \/ y = NaN THEN FALSE ELSE den * x <= num * y

(* Vectorised Series operators *)
SAbs(s) == [i \in 1..Len(s) |-> Abs(s[i])]
SSub(a, b) == [i \in 1..Len(a) |-> Sub(a[i], b[i])]
SLt(a, b) == [i \in 1..Len(a) |-> Lt(a[i], b[i])]
SGt(a, b) == [i \in 1..Len(a) |-> Gt(a[i], b[i])]
SLeFrac(a, num, den, b) == [i \in 1..Len(a) |-> LeFrac(a[i], num, den, b[i])]
SAnd(a, b) == [i \in 1..Len(a) |-> a[i] /\ b[i]]
(* Mutant: the shift goes the wrong way, Series.shift(-1) *)
Shift1_Back(s) == [i \in 1..Len(s) |-> IF i = Len(s) THEN NaN ELSE s[i + 1]]

(* Series.shift(1) *)
Shift1(s) == [i \in 1..Len(s) |-> IF i = 1 THEN NaN ELSE s[i - 1]]

-----------------------------------------------------------------------------
(* Python builtins applied to Series *)

SLe(a, b) == [i \in 1..Len(a) |-> IF a[i] = NaN \/ b[i] = NaN THEN FALSE ELSE a[i] <= b[i]]
SGe(a, b) == [i \in 1..Len(a) |-> IF a[i] = NaN \/ b[i] = NaN THEN FALSE ELSE a[i] >= b[i]]
SMul(k, s) == [i \in 1..Len(s) |-> IF s[i] = NaN THEN NaN ELSE k * s[i]]

(* bool(Series): pandas raises "The truth value of a Series is ambiguous"  *)
(* for a Series of any length                                              *)
Truth(s) == Raise("ValueError")

(* builtin min(a, b): b if b < a else a, the comparison taken as a bool    *)
PyMin(a, b) ==
  LET t == Truth(SLt(b, a))
  IN  IF t.exc # "none" THEN t ELSE Ok(IF t.val THEN b ELSE a)

(* builtin max(a, b): b if b > a else a *)
PyMax(a, b) ==
  LET t == Truth(SGt(b, a))
  IN  IF t.exc # "none" THEN t ELSE Ok(IF t.val THEN b ELSE a)

(* a and b: a if not bool(a) else b *)
PyAnd(a, b) ==
  LET t == Truth(a)
  IN  IF t.exc # "none" THEN t ELSE Ok(IF t.val THEN b ELSE a)

(* r and b, where the left operand r is itself the result of an `and` *)
PyAndR(r, b) == IF r.exc # "none" THEN r ELSE PyAnd(r.val, b)

-----------------------------------------------------------------------------
(* The detectors, on the Series arguments the handler passes *)

detect_doji(open_, high, low, close) ==
  LET body == SAbs(SSub(open_, close))
      range_ == SSub(high, low)
  IN  Ok(SLeFrac(body, TolNum, TolDen, range_))

detect_hammer(open_, high, low, close) ==
  LET body == SAbs(SSub(open_, close))
      range_ == SSub(high, low)
      mn == PyMin(open_, close)
      mx == PyMax(open_, close)
  IN  IF mn.exc # "none" THEN mn
      ELSE IF mx.exc # "none" THEN mx
      ELSE LET lower_shadow == SSub(mn.val, low)
               upper_shadow == SSub(high, mx.val)
           IN  PyAndR(PyAnd(SGe(lower_shadow, SMul(2, body)),
                            SLe(upper_shadow, body)),
                      SLeFrac(body, BodyNum, BodyDen, range_))

detect_shooting_star(open_, high, low, close) ==
  LET body == SAbs(SSub(open_, close))
      range_ == SSub(high, low)
      mx == PyMax(open_, close)
      mn == PyMin(open_, close)
  IN  IF mx.exc # "none" THEN mx
      ELSE IF mn.exc # "none" THEN mn
      ELSE LET upper_shadow == SSub(high, mx.val)
               lower_shadow == SSub(mn.val, low)
           IN  PyAndR(PyAnd(SGe(upper_shadow, SMul(2, body)),
                            SLe(lower_shadow, body)),
                      SLeFrac(body, BodyNum, BodyDen, range_))

(* Mutant: the last comparison is not strict, close >= prev_open *)
detect_bullish_engulfing_NonStrict(open_, high, low, close) ==
  LET prev_open == Shift1(open_)
      prev_close == Shift1(close)
  IN  Ok(SAnd(SAnd(SAnd(SLt(prev_close, prev_open),
                        SGt(close, open_)),
                   SLt(open_, prev_close)),
              SGe(close, prev_open)))

(* Mutant: the previous bar is not required to be bearish *)
detect_bullish_engulfing_AnyPrev(open_, high, low, close) ==
  LET prev_open == Shift1(open_)
      prev_close == Shift1(close)
  IN  Ok(SAnd(SAnd(SGt(close, open_),
                   SLt(open_, prev_close)),
              SGt(close, prev_open)))

detect_bullish_engulfing(open_, high, low, close) ==
  LET prev_open == Shift1(open_)
      prev_close == Shift1(close)
  IN  Ok(SAnd(SAnd(SAnd(SLt(prev_close, prev_open),
                        SGt(close, open_)),
                   SLt(open_, prev_close)),
              SGt(close, prev_open)))

(* <detector result>.astype(int) * k *)
AsTypeIntMul(r, k) ==
  IF r.exc # "none" THEN r
  ELSE Ok([i \in 1..Len(r.val) |-> IF r.val[i] THEN k ELSE 0])

(* The right-hand sides of the four pattern-column assignments *)
DojiColumn(d) ==
  AsTypeIntMul(detect_doji(d["Open"], d["High"], d["Low"], d["Close"]), DojiMul)
HammerColumn(d) ==
  AsTypeIntMul(detect_hammer(d["Open"], d["High"], d["Low"], d["Close"]), HammerMul)
ShootingStarColumn(d) ==
  AsTypeIntMul(detect_shooting_star(d["Open"], d["High"], d["Low"], d["Close"]), ShootingStarMul)
EngulfingColumn(d) ==
  AsTypeIntMul(detect_bullish_engulfing(d["Open"], d["High"], d["Low"], d["Close"]), EngulfingMul)

-----------------------------------------------------------------------------
(* The DataFrame yf.download returns: columns Open, High, Low, Close *)

NBars(d) == Len(d["Close"])

Max2(x, y) == IF x > y THEN x ELSE y
Min2(x, y) == IF x < y THEN x ELSE y

Prices == 1..MaxPrice
Gaps == {0 - 1, 0, 1}
(* <<u, d>>: high = max(open, close) + u, low = min(open, close) - d.       *)
(* <<0, 0>> gives zero-range bars where open = close; <<-1, 1>> gives bars  *)
(* whose high lies below the body (malformed)                              *)
Wicks == {<<0, 0>>, <<1, 1>>, <<0 - 1, 1>>}

Frame(o, c, w) ==
  [Open |-> o,
   High |-> [i \in 1..Len(o) |-> Max2(o[i], c[i]) + w[1]],
   Low |-> [i \in 1..Len(o) |-> Min2(o[i], c[i]) - w[2]],
   Close |-> c]

(* The opens of a series: the first is any price, each later one is the   *)
(* previous close moved by the gap g[i]; a series is kept when all its    *)
(* opens are prices.  All bars of a series share one wick shape           *)
OpensOf(o1, c, g) ==
  [i \in 1..Len(c) |-> IF i = 1 THEN o1 ELSE c[i - 1] + g[i]]

InPrices(d) == \A i \in 1..NBars(d) : d["Open"][i] \in Prices

(* The pattern p repeated up to n bars *)
Extend(p, n) ==
  [col \in DOMAIN p |-> [i \in 1..n |-> p[col][((i - 1) % NBars(p)) + 1]]]

Lengths == {0, 1} \cup ((MinBars - 1)..MaxBars)

EmptyFrame == Extend(Frame(<<1>>, <<1>>, <<0, 0>>), 0)

NoCall == [fn |-> "none"]

-----------------------------------------------------------------------------
(* The Load & Analyze handler *)

(* An indicator column computed by the ta library from the Close column *)
TA(name, close) == <<name, close>>

(* data[name] = <right-hand side>; an exception raised by the right-hand   *)
(* side, or earlier, leaves the frame as it is                             *)
Assign(s, name, r) ==
  IF s.exc # "none" THEN s
  ELSE IF r.exc # "none" THEN [s EXCEPT !.exc = r.exc]
  ELSE [s EXCEPT !.data = (name :> r.val) @@ s.data]

(* Mutant: the length test is off by one, len(data) < 49 *)
Insufficient_OffByOne(d) == NBars(d) = 0 \/ NBars(d) < MinBars - 1

(* data.empty or len(data) < 50 *)
Insufficient(d) == NBars(d) = 0 \/ NBars(d) < MinBars

(* The else branch up to the chart: the column assignments in order *)
Analyze(d) ==
  LET s0 == [data |-> d, exc |-> "none"]
      s1 == Assign(s0, "RSI", Ok(TA("rsi", s0.data["Close"])))
      s2 == Assign(s1, "MACD", Ok(TA("macd", s1.data["Close"])))
      s3 == Assign(s2, "MACD_signal", Ok(TA("macd_signal", s2.data["Close"])))
      s4 == Assign(s3, "BB_upper", Ok(TA("bollinger_hband", s3.data["Close"])))
      s5 == Assign(s4, "BB_middle", Ok(TA("bollinger_mavg", s4.data["Close"])))
      s6 == Assign(s5, "BB_lower", Ok(TA("bollinger_lband", s5.data["Close"])))
      s7 == Assign(s6, "Doji", DojiColumn(s6.data))
      s8 == Assign(s7, "Hammer", HammerColumn(s7.data))
      s9 == Assign(s8, "ShootingStar", ShootingStarColumn(s8.data))
  IN  Assign(s9, "Engulfing", EngulfingColumn(s9.data))

(* One press of the button: download, gate, analysis, chart.  The script  *)
(* runs in a fresh namespace, so the outcome depends on the download only *)
LoadAndAnalyze(d) ==
  /\ pc = "idle"
  /\ fetched' = d
  /\ pc' = "ran"
  /\ IF Insufficient(d)
       THEN /\ data' = d
            /\ exc' = "none"
            /\ ui' = "error"
       ELSE LET s == Analyze(d)
            IN  /\ data' = s.data
                /\ exc' = s.exc
                /\ ui' = IF s.exc = "none" THEN "chart" ELSE "exception"
  /\ UNCHANGED out

Init ==
  /\ pc = "idle"
  /\ fetched = EmptyFrame
  /\ data = EmptyFrame
  /\ ui = "none"
  /\ exc = "none"
  /\ out = NoCall

(* The next run of the script starts from the top with nothing kept from  *)
(* the run before                                                          *)
Rerun ==
  /\ pc = "ran"
  /\ pc' = "idle"
  /\ fetched' = EmptyFrame
  /\ data' = EmptyFrame
  /\ ui' = "none"
  /\ exc' = "none"
  /\ UNCHANGED out

Press ==
  /\ pc = "idle"
  /\ \E m \in 1..PatLen, n \in Lengths :
       \E o1 \in Prices, c \in [1..m -> Prices], g \in [2..m -> Gaps], w \in Wicks :
         LET p == Frame(OpensOf(o1, c, g), c, w)
         IN  InPrices(p) /\ LoadAndAnalyze(Extend(p, n))

Next == Press \/ Rerun

Spec == Init /\ [][Next]_vars

-----------------------------------------------------------------------------
(* The pattern-column expressions, each applied to a downloaded frame *)

Call(fn, r) ==
  /\ pc = "ready"
  /\ pc' = "returned"
  /\ out' = [fn |-> fn, res |-> r]
  /\ UNCHANGED <<fetched, data, ui, exc>>

CallDoji == Call("Doji", DojiColumn(data))
CallHammer == Call("Hammer", HammerColumn(data))
CallShootingStar == Call("ShootingStar", ShootingStarColumn(data))
CallEngulfing == Call("Engulfing", EngulfingColumn(data))

InitDetect ==
  /\ pc = "ready"
  /\ \E n \in 0..MaxLen :
       \E o1 \in Prices, c \in [1..n -> Prices], g \in [2..n -> Gaps], w \in Wicks :
         /\ fetched = Frame(OpensOf(o1, c, g), c, w)
         /\ InPrices(fetched)
  /\ data = fetched
  /\ ui = "none"
  /\ exc = "none"
  /\ out = NoCall

NextDetect == CallDoji \/ CallHammer \/ CallShootingStar \/ CallEngulfing

SpecDetect == InitDetect /\ [][NextDetect]_vars

-----------------------------------------------------------------------------
(* Vocabulary of the properties *)

OHLC == {"Open", "High", "Low", "Close"}
IndicatorCols == {"RSI", "MACD", "MACD_signal", "BB_upper", "BB_middle", "BB_lower"}
PatternCols == {"Doji", "Hammer", "ShootingStar", "Engulfing"}

Bars(d) == 1..NBars(d)

ZeroRange(d, k) ==
  /\ d["High"][k] = d["Low"][k]
  /\ d["Open"][k] = d["High"][k]
  /\ d["Close"][k] = d["High"][k]

WellFormed(d, k) ==
  /\ d["Low"][k] <= Min2(d["Open"][k], d["Close"][k])
  /\ Max2(d["Open"][k], d["Close"][k]) <= d["High"][k]

BodyOf(d, k) == Max2(d["Open"][k], d["Close"][k]) - Min2(d["Open"][k], d["Close"][k])
RangeOf(d, k) == d["High"][k] - d["Low"][k]
LowerShadowOf(d, k) == Min2(d["Open"][k], d["Close"][k]) - d["Low"][k]
UpperShadowOf(d, k) == d["High"][k] - Max2(d["Open"][k], d["Close"][k])

HammerRule(d, k) ==
  /\ LowerShadowOf(d, k) >= 2 * BodyOf(d, k)
  /\ UpperShadowOf(d, k) <= BodyOf(d, k)
  /\ 10 * BodyOf(d, k) <= 3 * RangeOf(d, k)

ShootingStarRule(d, k) ==
  /\ UpperShadowOf(d, k) >= 2 * BodyOf(d, k)
  /\ LowerShadowOf(d, k) <= BodyOf(d, k)
  /\ 10 * BodyOf(d, k) <= 3 * RangeOf(d, k)

EngulfingRule(d, k) ==
  /\ d["Close"][k - 1] < d["Open"][k - 1]
  /\ d["Close"][k] > d["Open"][k]
  /\ d["Open"][k] < d["Close"][k - 1]
  /\ d["Close"][k] > d["Open"][k - 1]

(* A detector call has returned or raised *)
Returned(fn) == pc = "returned" /\ out.fn = fn

(* The handler has run on a download that passed the length gate *)
Analysed == pc = "ran" /\ NBars(fetched) >= MinBars

-----------------------------------------------------------------------------
(* C1: for every bar with high = low = open = close of an analysed         *)
(* series, pattern detection does not raise and the bar's Hammer and       *)
(* ShootingStar signals are 0.                                             *)
C1_ZeroRangeGuard ==
  \A k \in Bars(fetched) :
    (Analysed /\ ZeroRange(fetched, k))
      => /\ exc = "none"
         /\ \A col \in {"Hammer", "ShootingStar"} :
              col \in DOMAIN data /\ data[col][k] = 0

(* C2: for every bar of an analysed series that violates                   *)
(* low <= min(open, close) <= max(open, close) <= high, detection does     *)
(* not raise and the bar's four pattern signals are all 0.                 *)
C2_MalformedBarIsZero ==
  \A k \in Bars(fetched) :
    (Analysed /\ ~WellFormed(fetched, k))
      => /\ exc = "none"
         /\ \A col \in PatternCols :
              col \in DOMAIN data /\ data[col][k] = 0

(* C3: for every downloaded series of at least 50 bars the analysis runs   *)
(* without raising and the Doji, Hammer, ShootingStar and Engulfing        *)
(* columns each hold one integer per input bar.                            *)
C3_DetectionCompletes ==
  Analysed
    => /\ exc = "none"
       /\ \A col \in PatternCols :
            /\ col \in DOMAIN data
            /\ Len(data[col]) = NBars(fetched)
            /\ \A k \in Bars(fetched) : data[col][k] \in {0 - 100, 0, 100}

(* C4: the Engulfing signal of the first bar is 0 whatever the bars are,   *)
(* and computing the Engulfing signals does not raise.                     *)
C4_EngulfingFirstBarZero ==
  Returned("Engulfing")
    => /\ out.res.exc = "none"
       /\ Len(out.res.val) = NBars(fetched)
       /\ NBars(fetched) >= 1 => out.res.val[1] = 0

(* Witness of C4: Engulfing computed on a series of two or more bars whose *)
(* first bar is bullish and whose second bar closes below it.              *)
C4_Witness ==
  /\ Returned("Engulfing")
  /\ NBars(fetched) >= 2
  /\ fetched["Close"][1] > fetched["Open"][1]
  /\ fetched["Close"][2] < fetched["Open"][2]
  /\ out.res.val[1] = 0

(* C5: for every bar k after the first, Engulfing[k] = 100 exactly when    *)
(* prevClose < prevOpen and close > open and open < prevClose and          *)
(* close > prevOpen, and 0 otherwise; high and low play no part.           *)
C5_EngulfingRule ==
  Returned("Engulfing")
    => /\ out.res.exc = "none"
       /\ \A k \in Bars(fetched) \ {1} :
            out.res.val[k] = IF EngulfingRule(fetched, k) THEN 100 ELSE 0

(* Witness of C5: a bar after the first that carries the signal, on        *)
(* malformed bars (high and low do not matter).                            *)
C5_Witness ==
  /\ Returned("Engulfing")
  /\ \E k \in Bars(fetched) \ {1} :
       /\ out.res.val[k] = 100
       /\ ~WellFormed(fetched, k)

(* C6: for every bar, Hammer = 100 exactly when lowerShadow >= 2*body and  *)
(* upperShadow <= body and body <= 0.3*range, and 0 otherwise.             *)
C6_HammerRule ==
  Analysed
    => /\ exc = "none"
       /\ "Hammer" \in DOMAIN data
       /\ \A k \in Bars(fetched) :
            data["Hammer"][k] = IF HammerRule(fetched, k) THEN 100 ELSE 0

(* C7: for every bar, ShootingStar = -100 exactly when                     *)
(* upperShadow >= 2*body and lowerShadow <= body and body <= 0.3*range,    *)
(* and 0 otherwise; it is never positive.                                  *)
C7_ShootingStarRule ==
  Analysed
    => /\ exc = "none"
       /\ "ShootingStar" \in DOMAIN data
       /\ \A k \in Bars(fetched) :
            data["ShootingStar"][k] = IF ShootingStarRule(fetched, k) THEN 0 - 100 ELSE 0

(* C8: when the downloaded series is empty or shorter than 50 bars an      *)
(* error is shown and no indicator, no pattern and no chart is computed;   *)
(* indicators and patterns are computed only for 50 bars or more.          *)
C8_MinLengthGate ==
  pc = "ran"
    => /\ NBars(fetched) < MinBars
            => (ui = "error" /\ exc = "none" /\ DOMAIN data = OHLC)
       /\ (DOMAIN data \cap (IndicatorCols \cup PatternCols) # {} \/ ui = "chart")
            => NBars(fetched) >= MinBars

(* Witness of C8: a download of 49 bars, rejected with the error message.  *)
C8_Witness ==
  /\ pc = "ran"
  /\ NBars(fetched) = MinBars - 1
  /\ ui = "error"
  /\ DOMAIN data = OHLC

(* C9: the analysis never mutates its input: after it the downloaded       *)
(* frame holds exactly the columns and values it held when downloaded.     *)
C9_InputImmutable ==
  pc = "ran" => data = fetched

(* C10: no two consecutive bars both carry an Engulfing signal.            *)
C10_NoConsecutiveEngulfing ==
  Returned("Engulfing")
    => \A k \in Bars(fetched) :
         (k + 1 \in Bars(fetched) /\ out.res.val[k] = 100) => out.res.val[k + 1] = 0

(* Witness of C10: a bar carrying the signal that has a successor.         *)
C10_Witness ==
  /\ Returned("Engulfing")
  /\ \E k \in Bars(fetched) :
       /\ k + 1 \in Bars(fetched)
       /\ out.res.val[k] = 100
       /\ out.res.val[k + 1] = 0

=============================================================================
